---- MODULE Spec2Model ----
(***************************************************************************)
(* Model of duim.py ("DU Improved"): the bar renderer percent_to_graph,    *)
(* the du-output parser create_dir_dict, the size formatter human_readable *)
(* and the report pipeline of main().                                      *)
(*                                                                         *)
(* Text is a sequence of one-character strings.  A Python float that holds *)
(* a ratio is kept as an exact fraction [num, den] (den > 0); a size that  *)
(* human_readable scales by powers of 1024 is kept as [m, e], standing for *)
(* m * 1024^e.                                                             *)
(***************************************************************************)
EXTENDS Integers, Sequences, FiniteSets, TLC

VARIABLES pc, target, isdir, length, human, du_output, dir_dict, total_size,
          sorted_dirs, row_i, stdout, stderr, exit_code, scanned, call, ret

vars == <<pc, target, isdir, length, human, du_output, dir_dict, total_size,
          sorted_dirs, row_i, stdout, stderr, exit_code, scanned, call, ret>>

mainvars == <<pc, target, isdir, length, human, du_output, dir_dict, total_size,
              sorted_dirs, row_i, stdout, stderr, exit_code, scanned>>

(* ------------------------------ bounds --------------------------------- *)
MaxWidth == 2
MaxLines == 3
MaxBarWidth == 4
MaxDen == 2
MaxParseLines == 2
MaxLineLen == 2
MaxMant == 3
MaxExp == 6

(* ------------------------------ text ----------------------------------- *)
TAB == "\t"

Digits == {"0", "1", "2", "3", "4", "5", "6", "7", "8", "9"}

DigitVal(c) ==
  CASE c = "0" -> 0 [] c = "1" -> 1 [] c = "2" -> 2 [] c = "3" -> 3
    [] c = "4" -> 4 [] c = "5" -> 5 [] c = "6" -> 6 [] c = "7" -> 7
    [] c = "8" -> 8 [] c = "9" -> 9

DigitChar(n) ==
  CASE n = 0 -> "0" [] n = 1 -> "1" [] n = 2 -> "2" [] n = 3 -> "3"
    [] n = 4 -> "4" [] n = 5 -> "5" [] n = 6 -> "6" [] n = 7 -> "7"
    [] n = 8 -> "8" [] n = 9 -> "9"

\* c * n of Python: n copies of the character c, the empty string for n <= 0
Rep(c, n) == IF n <= 0 THEN <<>> ELSE [i \in 1..n |-> c]

\* round(x) of Python for x = n / d, d > 0: nearest integer, ties to even
RoundHalfEven(n, d) ==
  LET q == n \div d
      r == n % d
  IN  IF 2 * r < d THEN q
      ELSE IF 2 * r > d THEN q + 1
      ELSE IF q % 2 = 0 THEN q ELSE q + 1

(* ------------------------- percent_to_graph ---------------------------- *)
percent_to_graph_floor(percent, total_chars) ==
  IF ~(0 <= percent.num /\ percent.num <= 100 * percent.den)
  THEN [raised |-> TRUE, value |-> <<>>]
  ELSE LET filled_length == (percent.num * total_chars) \div (100 * percent.den)
       IN  [raised |-> FALSE,
            value |-> Rep("=", filled_length) \o Rep(" ", total_chars - filled_length)]

percent_to_graph_strict(percent, total_chars) ==
  IF ~(0 <= percent.num /\ percent.num < 100 * percent.den)
  THEN [raised |-> TRUE, value |-> <<>>]
  ELSE LET filled_length == RoundHalfEven(percent.num * total_chars, 100 * percent.den)
       IN  [raised |-> FALSE,
            value |-> Rep("=", filled_length) \o Rep(" ", total_chars - filled_length)]

\* raised = TRUE stands for the ValueError of line 40
percent_to_graph(percent, total_chars) ==
  IF ~(0 <= percent.num /\ percent.num <= 100 * percent.den)
  THEN [raised |-> TRUE, value |-> <<>>]
  ELSE LET filled_length == RoundHalfEven(percent.num * total_chars, 100 * percent.den)
       IN  [raised |-> FALSE,
            value |-> Rep("=", filled_length) \o Rep(" ", total_chars - filled_length)]

(* --------------------------- create_dir_dict --------------------------- *)
\* line.split(sep): the fields between the separators, always at least one
RECURSIVE Split(_, _)
Split(line, sep) ==
  IF \A i \in 1..Len(line) : line[i] # sep
  THEN <<line>>
  ELSE LET p == CHOOSE i \in 1..Len(line) :
                  line[i] = sep /\ \A j \in 1..(i - 1) : line[j] # sep
       IN  <<SubSeq(line, 1, p - 1)>> \o Split(SubSeq(line, p + 1, Len(line)), sep)

RECURSIVE NatVal(_)
NatVal(s) ==
  IF s = <<>> THEN 0 ELSE 10 * NatVal(SubSeq(s, 1, Len(s) - 1)) + DigitVal(s[Len(s)])

\* int(s) over the characters of the model: an optional '-' and one or more
\* decimal digits; anything else is the ValueError of int()
ParseInt(s) ==
  LET neg  == s # <<>> /\ s[1] = "-"
      body == IF neg THEN Tail(s) ELSE s
  IN  IF body # <<>> /\ \A i \in 1..Len(body) : body[i] \in Digits
      THEN [raised |-> FALSE, value |-> IF neg THEN 0 - NatVal(body) ELSE NatVal(body)]
      ELSE [raised |-> TRUE, value |-> 0]

\* A dict is the sequence of its items [k, v] in insertion order, keys unique.
HasKey(d, k) == \E i \in 1..Len(d) : d[i].k = k

DictGet(d, k, default) ==
  IF HasKey(d, k) THEN d[CHOOSE i \in 1..Len(d) : d[i].k = k].v ELSE default

\* d[k] = v: an existing key keeps its position, a new key goes last
DictSet(d, k, v) ==
  IF HasKey(d, k)
  THEN [i \in 1..Len(d) |-> IF d[i].k = k THEN [k |-> k, v |-> v] ELSE d[i]]
  ELSE Append(d, [k |-> k, v |-> v])

DictDel(d, k) == SelectSeq(d, LAMBDA e : e.k # k)

RECURSIVE create_dir_dict_first_wins(_)
create_dir_dict_first_wins(du_out) ==
  IF du_out = <<>> THEN [raised |-> FALSE, dict |-> <<>>]
  ELSE LET before == create_dir_dict_first_wins(SubSeq(du_out, 1, Len(du_out) - 1))
           parts  == Split(du_out[Len(du_out)], TAB)
       IN  IF before.raised THEN before
           ELSE IF Len(parts) = 2
           THEN LET size == ParseInt(parts[1])
                IN  IF size.raised THEN [raised |-> TRUE, dict |-> <<>>]
                    ELSE IF HasKey(before.dict, parts[2]) THEN before
                    ELSE [raised |-> FALSE,
                          dict |-> DictSet(before.dict, parts[2], size.value)]
           ELSE before

\* The loop of lines 51-55 over du_out, first line first; raised = TRUE is the
\* ValueError of int(size) leaving the function at the first line that has it.
RECURSIVE create_dir_dict(_)
create_dir_dict(du_out) ==
  IF du_out = <<>> THEN [raised |-> FALSE, dict |-> <<>>]
  ELSE LET before == create_dir_dict(SubSeq(du_out, 1, Len(du_out) - 1))
           parts  == Split(du_out[Len(du_out)], TAB)
       IN  IF before.raised THEN before
           ELSE IF Len(parts) = 2
           THEN LET size == ParseInt(parts[1])
                IN  IF size.raised THEN [raised |-> TRUE, dict |-> <<>>]
                    ELSE [raised |-> FALSE,
                          dict |-> DictSet(before.dict, parts[2], size.value)]
           ELSE before

(* --------------------------- human_readable ---------------------------- *)
KB == 1024

\* x * 1024 and x / 1024 on a scaled number: exact, as the float division by
\* a power of two is
Mul1024(x) == [m |-> x.m, e |-> x.e + 1]

Div1024(x) == [m |-> x.m, e |-> x.e - 1]

\* x < 1024 for x = m * 1024^e; every m of the model is below 1024^3
Less1024(x) ==
  IF x.e >= 1 THEN x.m <= 0
  ELSE IF 1 - x.e >= 4 THEN TRUE
  ELSE x.m < KB ^ (1 - x.e)

Units == <<"B", "K", "M", "G", "T">>

\* the for loop of lines 88-91 from the unit at position i on, and line 92
RECURSIVE UnitLoop(_, _, _)
UnitLoop(size_bytes, units, i) ==
  IF i > Len(units) THEN [value |-> size_bytes, unit |-> "P"]
  ELSE IF Less1024(size_bytes) THEN [value |-> size_bytes, unit |-> units[i]]
  ELSE UnitLoop(Div1024(size_bytes), units, i + 1)

human_readable_no_T(size_kb) == UnitLoop(Mul1024(size_kb), <<"B", "K", "M", "G">>, 1)

\* [value, unit]: the two slots of the f-string "{size_bytes:.1f} {unit}"
human_readable(size_kb) == UnitLoop(Mul1024(size_kb), Units, 1)

RECURSIVE NatToStr(_)
NatToStr(n) ==
  IF n < 10 THEN <<DigitChar(n)>> ELSE NatToStr(n \div 10) \o <<DigitChar(n % 10)>>

\* str(n) / "{n}" of an int
IntToStr(n) == IF n < 0 THEN <<"-">> \o NatToStr(0 - n) ELSE NatToStr(n)

\* "{x:.0f}" of the fraction x: nearest integer, ties to even
Fmt0f(x) == IntToStr(RoundHalfEven(x.num, x.den))

\* 10 * x rounded to the nearest integer, ties to even, for x = m * 1024^e
\* small enough to be written out (a value below 1024^-3 * 2^31 rounds to 0)
Tenths(x) ==
  IF x.e >= 0 THEN 10 * x.m * KB ^ x.e
  ELSE IF 0 - x.e >= 4 THEN 0
  ELSE RoundHalfEven(10 * x.m, KB ^ (0 - x.e))

\* "{x:.1f}"
Fmt1f(x) ==
  LET t == Tenths(x)
      a == IF t < 0 THEN 0 - t ELSE t
  IN  (IF t < 0 THEN <<"-">> ELSE <<>>) \o NatToStr(a \div 10) \o <<".", DigitChar(a % 10)>>

\* the string human_readable returns
HumanText(r) == Fmt1f(r.value) \o <<" ", r.unit>>

\* "{s:>w}": s right-aligned in a field of w characters
PadLeft(s, w) == Rep(" ", w - Len(s)) \o s

(* ------------------------------- main ---------------------------------- *)
\* call_du_sub, line 27: the lines of the child's standard output, stripped,
\* the empty ones dropped
IsSpace(c) == c \in {" ", TAB}

RECURSIVE LStrip(_)
LStrip(s) == IF s # <<>> /\ IsSpace(s[1]) THEN LStrip(Tail(s)) ELSE s

RECURSIVE RStrip(_)
RStrip(s) ==
  IF s # <<>> /\ IsSpace(s[Len(s)]) THEN RStrip(SubSeq(s, 1, Len(s) - 1)) ELSE s

Strip(s) == LStrip(RStrip(s))

RECURSIVE StripLines(_)
StripLines(raw) ==
  IF raw = <<>> THEN <<>>
  ELSE (IF Strip(Head(raw)) # <<>> THEN <<Strip(Head(raw))>> ELSE <<>>)
       \o StripLines(Tail(raw))

\* sorted(items, key = size, reverse = True): descending and stable, an item
\* goes behind every item that is at least as large and came before it
RECURSIVE InsertDesc(_, _)
InsertDesc(s, x) ==
  IF s = <<>> THEN <<x>>
  ELSE IF Head(s).v >= x.v THEN <<Head(s)>> \o InsertDesc(Tail(s), x)
  ELSE <<x>> \o s

RECURSIVE InsertAsc(_, _)
InsertAsc(s, x) ==
  IF s = <<>> THEN <<x>>
  ELSE IF Head(s).v <= x.v THEN <<Head(s)>> \o InsertAsc(Tail(s), x)
  ELSE <<x>> \o s

RECURSIVE InsertDescTiesFirst(_, _)
InsertDescTiesFirst(s, x) ==
  IF s = <<>> THEN <<x>>
  ELSE IF Head(s).v > x.v THEN <<Head(s)>> \o InsertDescTiesFirst(Tail(s), x)
  ELSE <<x>> \o s

RECURSIVE sorted_ascending(_)
sorted_ascending(items) ==
  IF items = <<>> THEN <<>>
  ELSE InsertAsc(sorted_ascending(SubSeq(items, 1, Len(items) - 1)), items[Len(items)])

RECURSIVE sorted_ties_reversed(_)
sorted_ties_reversed(items) ==
  IF items = <<>> THEN <<>>
  ELSE InsertDescTiesFirst(sorted_ties_reversed(SubSeq(items, 1, Len(items) - 1)),
                           items[Len(items)])

RECURSIVE sorted_reverse(_)
sorted_reverse(items) ==
  IF items = <<>> THEN <<>>
  ELSE InsertDesc(sorted_reverse(SubSeq(items, 1, Len(items) - 1)), items[Len(items)])

\* line 120
Percent(size, total) ==
  IF total > 0 THEN [num |-> size * 100, den |-> total] ELSE [num |-> 0, den |-> 1]

\* lines 122 and 126
SizeStr(size, h) ==
  IF h THEN HumanText(human_readable([m |-> size, e |-> 0]))
  ELSE IntToStr(size) \o <<"K">>

\* The program's inputs: the command line, the file system and the child process.
Target == <<"a">>

Widths == 0..MaxWidth

ScanSizes == {<<"0">>, <<"1">>, <<"2">>, <<"-", "1">>}

ScanPaths == {Target, <<"a", "/", "x">>, <<"a", "/", "y">>}

\* lines that are not "<size> TAB <path>": no tab, two tabs, a size that is no integer
ScanJunk == {<<"d", "u">>, <<"1", TAB, "x", TAB, "y">>, <<"?", TAB, "a", "/", "x">>}

ScanLines == {sz \o <<TAB>> \o p : sz \in ScanSizes, p \in ScanPaths} \cup ScanJunk

RECURSIVE SeqsUpTo(_, _)
SeqsUpTo(S, n) ==
  IF n = 0 THEN {<<>>}
  ELSE LET shorter == SeqsUpTo(S, n - 1)
       IN  shorter \cup {Append(q, x) : q \in {t \in shorter : Len(t) = n - 1}, x \in S}

Idle == /\ call = [fn |-> "main"]
        /\ ret = <<>>

Init ==
  /\ pc = "start"
  /\ target = Target
  /\ isdir \in BOOLEAN
  /\ length \in Widths
  /\ human \in BOOLEAN
  /\ du_output = <<>>
  /\ dir_dict = <<>>
  /\ total_size = 0
  /\ sorted_dirs = <<>>
  /\ row_i = 1
  /\ stdout = <<>>
  /\ stderr = <<>>
  /\ exit_code = 0 - 1
  /\ scanned = FALSE
  /\ Idle

\* sys.exit(code), or the interpreter ending on an uncaught exception (code 1)
Exit(code, message) ==
  /\ pc' = "exit"
  /\ exit_code' = code
  /\ stderr' = IF message = "" THEN stderr ELSE Append(stderr, message)

CheckTarget_no_exit ==
  /\ pc = "start"
  /\ pc' = "scan"
  /\ stderr' = IF isdir THEN stderr ELSE Append(stderr, "Error: not a valid directory")
  /\ UNCHANGED <<target, isdir, length, human, du_output, dir_dict, total_size,
                 sorted_dirs, row_i, stdout, exit_code, scanned, call, ret>>

\* lines 95-99
CheckTarget ==
  /\ pc = "start"
  /\ IF ~isdir
     THEN Exit(1, "Error: not a valid directory")
     ELSE /\ pc' = "scan"
          /\ UNCHANGED <<exit_code, stderr>>
  /\ UNCHANGED <<target, isdir, length, human, du_output, dir_dict, total_size,
                 sorted_dirs, row_i, stdout, scanned, call, ret>>

\* line 101, call_du_sub: the child cannot be started (lines 28-30), or it
\* writes some lines, each ended by a newline
Scan ==
  /\ pc = "scan"
  /\ scanned' = TRUE
  /\ \/ /\ Exit(1, "Error: scan failed")
        /\ UNCHANGED du_output
     \/ /\ \E out \in SeqsUpTo(ScanLines, MaxLines) :
             du_output' = StripLines(out \o << <<>> >>)
        /\ pc' = "parse"
        /\ UNCHANGED <<exit_code, stderr>>
  /\ UNCHANGED <<target, isdir, length, human, dir_dict, total_size,
                 sorted_dirs, row_i, stdout, call, ret>>

\* lines 102-106
Parse ==
  /\ pc = "parse"
  /\ LET r == create_dir_dict(du_output)
     IN  IF r.raised
         THEN /\ Exit(1, "ValueError: invalid literal for int()")
              /\ UNCHANGED dir_dict
         ELSE IF r.dict = <<>>
         THEN /\ Exit(0, "No subdirectories found.")
              /\ dir_dict' = r.dict
         ELSE /\ dir_dict' = r.dict
              /\ pc' = "pop"
              /\ UNCHANGED <<exit_code, stderr>>
  /\ UNCHANGED <<target, isdir, length, human, du_output, total_size,
                 sorted_dirs, row_i, stdout, scanned, call, ret>>

pop_keep_key(d, k, default) == [value |-> DictGet(d, k, default), dict |-> d]

pop_default_one(d, k, default) == [value |-> DictGet(d, k, 1), dict |-> DictDel(d, k)]

\* dict.pop(k, default): the value removed (or the default) and the dict left
pop(d, k, default) == [value |-> DictGet(d, k, default), dict |-> DictDel(d, k)]

\* lines 109-116
PopAndSort ==
  /\ pc = "pop"
  /\ LET p == pop(dir_dict, target, 0)
     IN  /\ total_size' = p.value
         /\ dir_dict' = p.dict
         /\ sorted_dirs' = sorted_reverse(p.dict)
  /\ row_i' = 1
  /\ pc' = "rows"
  /\ UNCHANGED <<target, isdir, length, human, du_output, stdout, stderr,
                 exit_code, scanned, call, ret>>

\* lines 119-123, one pass of the loop
PrintRow ==
  /\ pc = "rows"
  /\ row_i <= Len(sorted_dirs)
  /\ LET directory == sorted_dirs[row_i].k
         size      == sorted_dirs[row_i].v
         percent   == Percent(size, total_size)
         bar       == percent_to_graph(percent, length)
     IN  IF bar.raised
         THEN /\ Exit(1, "ValueError: Percent must be between 0 and 100.")
              /\ UNCHANGED <<stdout, row_i>>
         ELSE /\ stdout' = Append(stdout,
                             [kind      |-> "row",
                              percent   |-> percent,
                              pct       |-> PadLeft(Fmt0f(percent), 3),
                              bar       |-> bar.value,
                              size      |-> size,
                              size_str  |-> PadLeft(SizeStr(size, human), 8),
                              directory |-> directory])
              /\ row_i' = row_i + 1
              /\ UNCHANGED <<pc, exit_code, stderr>>
  /\ UNCHANGED <<target, isdir, length, human, du_output, dir_dict, total_size,
                 sorted_dirs, scanned, call, ret>>

\* lines 126-127, and the end of the program
PrintTotal ==
  /\ pc = "rows"
  /\ row_i > Len(sorted_dirs)
  /\ stdout' = Append(stdout,
                 [kind      |-> "total",
                  size      |-> total_size,
                  size_str  |-> SizeStr(total_size, human),
                  directory |-> target])
  /\ Exit(0, "")
  /\ UNCHANGED <<target, isdir, length, human, du_output, dir_dict, total_size,
                 sorted_dirs, row_i, scanned, call, ret>>

Next == CheckTarget \/ Scan \/ Parse \/ PopAndSort \/ PrintRow \/ PrintTotal

Spec == Init /\ [][Next]_vars

(* ------------------ the functions called on their own ------------------ *)
MainIdle ==
  /\ pc = "idle"
  /\ target = Target
  /\ isdir = TRUE
  /\ length = 0
  /\ human = FALSE
  /\ du_output = <<>>
  /\ dir_dict = <<>>
  /\ total_size = 0
  /\ sorted_dirs = <<>>
  /\ row_i = 1
  /\ stdout = <<>>
  /\ stderr = <<>>
  /\ exit_code = 0 - 1
  /\ scanned = FALSE

GraphPercents ==
  {[num |-> n, den |-> d] : n \in (0 - 1)..(100 * MaxDen + 1), d \in 1..MaxDen}

InitGraph ==
  /\ MainIdle
  /\ call \in {[fn |-> "percent_to_graph", percent |-> p, total_chars |-> w] :
                 p \in GraphPercents, w \in (0 - 1)..MaxBarWidth}
  /\ ret = <<>>

CallGraph ==
  /\ call.fn = "percent_to_graph"
  /\ ret = <<>>
  /\ ret' = <<percent_to_graph(call.percent, call.total_chars)>>
  /\ UNCHANGED <<mainvars, call>>

SpecGraph == InitGraph /\ [][CallGraph]_vars

ParseChars == {"1", "2", TAB, "a"}

InitParse ==
  /\ MainIdle
  /\ call \in {[fn |-> "create_dir_dict", du_output |-> out] :
                 out \in SeqsUpTo(SeqsUpTo(ParseChars, MaxLineLen), MaxParseLines)}
  /\ ret = <<>>

CallParse ==
  /\ call.fn = "create_dir_dict"
  /\ ret = <<>>
  /\ ret' = <<create_dir_dict(call.du_output)>>
  /\ UNCHANGED <<mainvars, call>>

SpecParse == InitParse /\ [][CallParse]_vars

HumanMants == ((0 - 1)..MaxMant) \cup {1023, 1024, 1025, 2048, 1048575, 1048576}

InitHuman ==
  /\ MainIdle
  /\ call \in {[fn |-> "human_readable", size_kb |-> [m |-> m, e |-> e]] :
                 m \in HumanMants, e \in 0..MaxExp}
  /\ ret = <<>>

CallHuman ==
  /\ call.fn = "human_readable"
  /\ ret = <<>>
  /\ ret' = <<human_readable(call.size_kb)>>
  /\ UNCHANGED <<mainvars, call>>

SpecHuman == InitHuman /\ [][CallHuman]_vars

(* ---------------------------- properties ------------------------------- *)
TabPositions(line) == {i \in 1..Len(line) : line[i] = TAB}

TwoFields(line) == Cardinality(TabPositions(line)) = 1

TabAt(line) == CHOOSE i \in 1..Len(line) : line[i] = TAB

SizeField(line) == SubSeq(line, 1, TabAt(line) - 1)

PathField(line) == SubSeq(line, TabAt(line) + 1, Len(line))

Keys(d) == {d[i].k : i \in 1..Len(d)}

Rows(out) == SelectSeq(out, LAMBDA l : l.kind = "row")

InRange(p) == 0 <= p.num /\ p.num <= 100 * p.den

Called == ret # <<>>

\* C1: for a percent in [0,100] and a width w >= 0, percent_to_graph returns
\* without raising a string of length exactly w made of f '=' characters
\* followed only by spaces, where f is the integer nearest to percent/100*w
\* (the even one of the two when they are equally near); w = 0 gives "".
C1_BarShape ==
  (Called /\ InRange(call.percent) /\ call.total_chars >= 0) =>
    LET bar == ret[1].value
        w   == call.total_chars
        n   == call.percent.num * w
        d   == 100 * call.percent.den
    IN  /\ ~ret[1].raised
        /\ Len(bar) = w
        /\ (w = 0 => bar = <<>>)
        /\ \E f \in 0..w :
             /\ \A i \in 1..w : bar[i] = (IF i <= f THEN "=" ELSE " ")
             /\ 2 * (d * f - n) <= d
             /\ 2 * (n - d * f) <= d
             /\ (2 * (d * f - n) = d \/ 2 * (n - d * f) = d) => f % 2 = 0

\* 50 % of width 3 is the tie 1.5, drawn as two '=' and one space
C1_Witness ==
  /\ Called
  /\ call.percent = [num |-> 50, den |-> 1]
  /\ call.total_chars = 3
  /\ ret[1] = [raised |-> FALSE, value |-> <<"=", "=", " ">>]

AllUnits == <<"B", "K", "M", "G", "T", "P">>

UnitIndex(u) == (CHOOSE i \in 1..Len(AllUnits) : AllUnits[i] = u) - 1

\* m * 1024^e >= 1024, for 0 <= m < 1024^3
AtLeast1024(m, e) ==
  IF e >= 1 THEN m >= 1
  ELSE IF e = 0 THEN m >= 1024
  ELSE IF e = 0 - 1 THEN m >= 1024 * 1024
  ELSE FALSE

\* C8: for a non-negative size_kb, human_readable reports size_kb*1024 / 1024^i
\* in the unit at index i of [B, K, M, G, T, P], where i is the number of
\* divisions by 1024 made while the value is >= 1024, at most 5: every value
\* before the i-th division is >= 1024, the mantissa is below 1024 unless the
\* unit is P, and a value too large for P is reported in P with a mantissa
\* >= 1024; 2048 gives "2.0 M" and 0 gives the unit B.
C8_UnitAndMantissa ==
  (Called /\ call.size_kb.m >= 0) =>
    LET m == call.size_kb.m
        e == call.size_kb.e + 1
        r == ret[1]
        i == UnitIndex(r.unit)
    IN  /\ r.unit \in {AllUnits[k] : k \in 1..Len(AllUnits)}
        /\ r.value = [m |-> m, e |-> e - i]
        /\ \A j \in 0..(i - 1) : AtLeast1024(m, e - j)
        /\ r.unit # "P" => ~AtLeast1024(m, e - i)
        /\ AtLeast1024(m, e - 5) => (r.unit = "P" /\ AtLeast1024(r.value.m, r.value.e))
        /\ (m = 2048 /\ e = 1) => HumanText(r) = <<"2", ".", "0", " ", "M">>
        /\ m = 0 => r.unit = "B"

\* 1025 * 1024^4 KB is too large for P and is reported as 1025 P
C8_Witness ==
  /\ Called
  /\ call.size_kb = [m |-> 1025, e |-> 4]
  /\ ret[1] = [value |-> [m |-> 1025, e |-> 0], unit |-> "P"]

\* what create_dir_dict made of the scan output of this run
Parsed == create_dir_dict(du_output)

\* the scan returned and its output was parsed into a mapping
ParsedOk == pc \in {"pop", "rows", "exit"} /\ scanned /\ stderr # <<"Error: scan failed">>
            /\ ~Parsed.raised

PercentError == "ValueError: Percent must be between 0 and 100."

\* the position in the scan output of the first line for a path
FirstSeen(path) ==
  CHOOSE i \in 1..Len(du_output) :
    /\ TwoFields(du_output[i]) /\ PathField(du_output[i]) = path
    /\ \A j \in 1..(i - 1) : ~(TwoFields(du_output[j]) /\ PathField(du_output[j]) = path)

\* C2: when the mapping left after removing the target's key is empty, the run
\* ends with the "No subdirectories found." diagnostic and exit code 0 and
\* writes no row and no Total line to standard output.
C2_NoSubdirectories ==
  (pc = "exit" /\ ParsedOk /\ DictDel(Parsed.dict, target) = <<>>) =>
    /\ stderr = <<"No subdirectories found.">>
    /\ exit_code = 0
    /\ stdout = <<>>

\* C3 as stated: whenever total_kb > 0, every row's percent lies in [0,100]
\* and the run never ends with the percent-range ValueError.
C3_PercentAlwaysInRange ==
  (pc \in {"rows", "exit"} /\ total_size > 0) =>
    /\ \A i \in 1..Len(stdout) : stdout[i].kind = "row" => InRange(stdout[i].percent)
    /\ \A i \in 1..Len(stderr) : stderr[i] # PercentError

\* C3 amended: when total_kb > 0 and every non-target size lies in
\* 0..total_kb, every row's percent lies in [0,100], the percent-range
\* ValueError is never raised, and the run ends with exit code 0 having
\* written every row and the Total line.
C3_PercentInRangeWhenSizesWithinTotal ==
  (/\ pc \in {"rows", "exit"}
   /\ total_size > 0
   /\ \A i \in 1..Len(sorted_dirs) : 0 <= sorted_dirs[i].v /\ sorted_dirs[i].v <= total_size) =>
    /\ \A i \in 1..Len(stdout) : stdout[i].kind = "row" => InRange(stdout[i].percent)
    /\ stderr = <<>>
    /\ pc = "exit" => (exit_code = 0 /\ Len(stdout) = Len(sorted_dirs) + 1)

\* a finished report with total_kb > 0 holding a row at 100 % and a row below
C3_Witness ==
  /\ pc = "exit"
  /\ total_size > 0
  /\ \A i \in 1..Len(sorted_dirs) : 0 <= sorted_dirs[i].v /\ sorted_dirs[i].v <= total_size
  /\ Len(stdout) = 3
  /\ stdout[1].percent = [num |-> 100 * total_size, den |-> total_size]
  /\ stdout[2].size < total_size

\* C4: the rows written so far are in non-increasing order of size, and of two
\* rows of equal size the one whose path was seen first in the scan output
\* comes first.
C4_RowsSortedStable ==
  LET rows == Rows(stdout)
  IN  \A i \in 1..Len(rows) : \A j \in 1..Len(rows) :
        i < j =>
          /\ rows[i].size >= rows[j].size
          /\ rows[i].size = rows[j].size =>
               FirstSeen(rows[i].directory) < FirstSeen(rows[j].directory)

\* two rows of equal size; the path of the first was scanned first, and
\* scanned again with the final size after the other path
C4_Witness ==
  /\ Len(Rows(stdout)) = 2
  /\ stdout[1].size = stdout[2].size
  /\ Len(du_output) = 3
  /\ \A i \in 1..3 : TwoFields(du_output[i])
  /\ PathField(du_output[1]) = stdout[1].directory
  /\ PathField(du_output[2]) = stdout[2].directory
  /\ PathField(du_output[3]) = stdout[1].directory
  /\ SizeField(du_output[1]) # SizeField(du_output[3])

\* C5: when the target is no key of the parsed scan output and other entries
\* are, total_kb is 0, every row has percent 0 and a bar of spaces only,
\* nothing is raised or reported as an error, and the run ends with exit code
\* 0 after the Total line, which reports size 0 for the target.
C5_TargetAbsent ==
  (ParsedOk /\ pc \in {"rows", "exit"} /\ ~HasKey(Parsed.dict, target) /\ Parsed.dict # <<>>) =>
    /\ total_size = 0
    /\ stderr = <<>>
    /\ \A i \in 1..Len(stdout) :
         stdout[i].kind = "row" =>
           /\ stdout[i].percent.num = 0
           /\ stdout[i].pct = <<" ", " ", "0">>
           /\ Len(stdout[i].bar) = length
           /\ \A c \in 1..length : stdout[i].bar[c] = " "
    /\ pc = "exit" =>
         /\ exit_code = 0
         /\ Len(stdout) = Len(Parsed.dict) + 1
         /\ stdout[Len(stdout)].kind = "total"
         /\ stdout[Len(stdout)].size = 0
         /\ stdout[Len(stdout)].size_str \in {<<"0", "K">>, <<"0", ".", "0", " ", "B">>}
         /\ stdout[Len(stdout)].directory = target

\* two rows of non-zero size without a line for the target, bars of width 2
C5_Witness ==
  /\ pc = "exit"
  /\ ParsedOk
  /\ ~HasKey(Parsed.dict, target)
  /\ length = 2
  /\ Len(stdout) = 3
  /\ stdout[1].size = 2
  /\ stdout[1].bar = <<" ", " ">>
  /\ stdout[3].kind = "total"

\* C6: in a run that completes the report, the output is the rows followed by
\* one Total line; no row is for the target; there is exactly one row for each
\* non-target path of the mapping, with that path's size; the Total line names
\* the target with the size recorded for it (0 when it has none), and that
\* size is the denominator of every row's percent.
C6_ReportShape ==
  (pc = "exit" /\ exit_code = 0 /\ stdout # <<>>) =>
    LET n     == Len(stdout)
        total == stdout[n]
        other == Keys(Parsed.dict) \ {target}
    IN  /\ total.kind = "total"
        /\ total.directory = target
        /\ total.size = DictGet(Parsed.dict, target, 0)
        /\ total.size_str = SizeStr(total.size, human)
        /\ \A i \in 1..(n - 1) :
             /\ stdout[i].kind = "row"
             /\ stdout[i].directory # target
             /\ stdout[i].size = DictGet(Parsed.dict, stdout[i].directory, 0 - 9)
             /\ IF total.size > 0
                THEN stdout[i].percent.num * total.size
                       = 100 * stdout[i].size * stdout[i].percent.den
                ELSE stdout[i].percent.num = 0
        /\ {stdout[i].directory : i \in 1..(n - 1)} = other
        /\ n - 1 = Cardinality(other)

\* a finished report with the target's line scanned and two rows
C6_Witness ==
  /\ pc = "exit"
  /\ exit_code = 0
  /\ HasKey(Parsed.dict, target)
  /\ Len(stdout) = 3
  /\ stdout[3].kind = "total"
  /\ stdout[3].size = 2
  /\ stdout[1].percent = [num |-> 100, den |-> 2]

\* C9: when the target is no directory, the run prints its diagnostic and ends
\* with exit code 1 as its first step: the scan is never invoked, nothing is
\* parsed, and no row and no Total line is written.
C9_InvalidTarget ==
  (~isdir /\ pc # "start") =>
    /\ pc = "exit"
    /\ exit_code = 1
    /\ stderr = <<"Error: not a valid directory">>
    /\ ~scanned
    /\ du_output = <<>>
    /\ dir_dict = <<>>
    /\ sorted_dirs = <<>>
    /\ stdout = <<>>

C9_Witness == ~isdir /\ pc = "exit" /\ exit_code = 1 /\ ~scanned

\* C10: when total_kb > 0 and some non-target entry is larger than total_kb,
\* the percent-range error is raised for the first row, the run ends with
\* exit code 1, and nothing was written to standard output before it.
C10_AbortBeforeAnyRow ==
  (/\ pc \in {"rows", "exit"}
   /\ total_size > 0
   /\ \E i \in 1..Len(sorted_dirs) : sorted_dirs[i].v > total_size) =>
    /\ stdout = <<>>
    /\ row_i = 1
    /\ pc = "exit" => (exit_code = 1 /\ stderr = <<PercentError>>)

\* the abort with a second entry that is within the total
C10_Witness ==
  /\ pc = "exit"
  /\ total_size > 0
  /\ Len(sorted_dirs) = 2
  /\ sorted_dirs[1].v > total_size
  /\ sorted_dirs[2].v > 0
  /\ sorted_dirs[2].v <= total_size
  /\ stderr = <<PercentError>>
  /\ stdout = <<>>

====
